---------------------------- MODULE Spec2Model ----------------------------
(***************************************************************************)
(* Model of clang-format.py: the resolver find_main_file, the templater    *)
(* modify_clang_format and the loop of main.                               *)
(*                                                                         *)
(* A text (a path, a file name, a line of the configuration document) is   *)
(* a sequence of atoms.  An atom stands for a fixed piece of text: "/" is  *)
(* the path separator, ".hpp" ".cpp" ".txt" ".tmp" are extensions,         *)
(* ".clang-format" is the base document's name, "_test" "_mock" "_impl"    *)
(* are the name suffixes, "MAIN_INCLUDE_FILE" is the placeholder, ".."     *)
(* and "." are relpath's components, and "p" "w" "core" "test" "mock"      *)
(* "impl" "ery" "key" "reformatted" are plain words.  In the texts of the  *)
(* model no atom's text occurs across the border of two other atoms, so    *)
(* Python's str operations (in, replace, endswith, slicing) act on the     *)
(* sequence of atoms as they act on the characters.  The project lies in   *)
(* /p; every path is absolute and normalised, as os.path.abspath leaves it.*)
(***************************************************************************)
EXTENDS Integers, Sequences, FiniteSets, TLC

VARIABLES
    fs,          \* the regular files on disk: what os.path.isfile answers
    doc,         \* doc[path]: the lines of the configuration document at path;
                 \* a path outside DOMAIN doc holds no document
    file_path,   \* the input being handled
    main_file,   \* find_main_file's result for file_path (None when absent)
    relative_main_file,  \* modify_clang_format: the string it substitutes
    argv,        \* sys.argv[1:], each already made absolute
    idx,         \* main: the number of arguments fully handled
    pc,          \* main: the position in the loop body
    calls,       \* main: the formatter invocations so far, in order
    exit_code    \* main: the process's exit status (-1 before it ends)

vars == <<fs, doc, file_path, main_file, relative_main_file, argv, idx, pc, calls, exit_code>>

-----------------------------------------------------------------------------
(* Bounds of the model *)

MaxFiles == 2       \* the resolver alone: at most this many headers on disk
MaxArgs == 2        \* at most this many command-line arguments
MaxLines == 2       \* at most this many lines in the base document

-----------------------------------------------------------------------------
(* Python's str and os.path (posixpath) on sequences of atoms *)

None == <<>>
Sep == "/"

\* old in s
Contains(s, old) ==
    \E k \in 0..(Len(s) - Len(old)) : SubSeq(s, k + 1, k + Len(old)) = old

\* s.endswith(suffix)
EndsWith(s, suffix) ==
    /\ Len(s) >= Len(suffix)
    /\ SubSeq(s, Len(s) - Len(suffix) + 1, Len(s)) = suffix

\* s.replace(old, new, count): the leftmost non-overlapping occurrences,
\* at most count of them; every one when count is negative
RECURSIVE Replace(_, _, _, _)
Replace(s, old, new, count) ==
    IF count = 0 \/ Len(s) < Len(old) THEN s
    ELSE IF SubSeq(s, 1, Len(old)) = old
         THEN new \o Replace(SubSeq(s, Len(old) + 1, Len(s)), old, new, count - 1)
         ELSE <<Head(s)>> \o Replace(Tail(s), old, new, count)

\* the position of the last separator of p, 0 when there is none
LastSep(p) ==
    LET at == {k \in 1..Len(p) : p[k] = Sep}
    IN  IF at = {} THEN 0 ELSE CHOOSE k \in at : \A j \in at : j <= k

\* os.path.basename
basename(p) == SubSeq(p, LastSep(p) + 1, Len(p))

RECURSIVE RStripSep(_)
RStripSep(p) ==
    IF p # <<>> /\ p[Len(p)] = Sep THEN RStripSep(SubSeq(p, 1, Len(p) - 1)) ELSE p

\* os.path.dirname: the head up to the last separator, its trailing
\* separators stripped unless it consists of separators only
dirname(p) ==
    LET head == SubSeq(p, 1, LastSep(p))
    IN  IF RStripSep(head) = <<>> THEN head ELSE RStripSep(head)

\* os.path.join(a, b)
join(a, b) ==
    IF b # <<>> /\ Head(b) = Sep THEN b
    ELSE IF a = <<>> \/ a[Len(a)] = Sep THEN a \o b
    ELSE a \o <<Sep>> \o b

\* the atoms that start with a dot
DotAtoms == {".hpp", ".cpp", ".txt", ".tmp", ".clang-format"}

\* os.path.splitext(file_name): the extension starts at the last dot, unless
\* only dots come before it
LastDot(n) ==
    LET at == {k \in 1..Len(n) : n[k] \in DotAtoms}
    IN  IF at = {} THEN 0 ELSE CHOOSE k \in at : \A j \in at : j <= k

splitext(n) ==
    IF LastDot(n) <= 1 THEN <<n, <<>>>>
    ELSE <<SubSeq(n, 1, LastDot(n) - 1), SubSeq(n, LastDot(n), Len(n))>>

\* the components of a path: the pieces between separators, empty ones dropped
RECURSIVE Components(_)
Components(p) ==
    IF p = <<>> THEN <<>>
    ELSE IF Head(p) = Sep THEN Components(Tail(p))
    ELSE LET rest == {k \in 1..Len(p) : p[k] = Sep}
             stop == IF rest = {} THEN Len(p) + 1
                     ELSE CHOOSE k \in rest : \A j \in rest : k <= j
         IN  <<SubSeq(p, 1, stop - 1)>> \o Components(SubSeq(p, stop, Len(p)))

\* the length of the longest common prefix of two sequences
RECURSIVE CommonLen(_, _)
CommonLen(a, b) ==
    IF a = <<>> \/ b = <<>> \/ Head(a) # Head(b) THEN 0
    ELSE 1 + CommonLen(Tail(a), Tail(b))

\* the components joined by separators, none leading
RECURSIVE JoinComponents(_)
JoinComponents(cs) ==
    IF cs = <<>> THEN <<>>
    ELSE IF Len(cs) = 1 THEN cs[1]
    ELSE cs[1] \o <<Sep>> \o JoinComponents(Tail(cs))

\* os.path.relpath(path, start) of two absolute normalised paths: one ".."
\* for each component of start after the common prefix, then the rest of path
relpath(path, start) ==
    LET pc_ == Components(path)
        sc  == Components(start)
        n   == CommonLen(pc_, sc)
        ups == [k \in 1..(Len(sc) - n) |-> <<"..">>]
        rel == ups \o SubSeq(pc_, n + 1, Len(pc_))
    IN  IF rel = <<>> THEN <<".">> ELSE JoinComponents(rel)

-----------------------------------------------------------------------------
(* The program's constants *)

PROJECT_DIR == <<Sep, "p">>
SRC_DIR == join(PROJECT_DIR, <<"core">>)
TEST_DIR == join(PROJECT_DIR, <<"test">>)
MOCK_DIR == join(TEST_DIR, <<"mock">>)
SRC_REFLECTION == <<"core">>
PLACEHOLDER == <<"MAIN_INCLUDE_FILE">>


-----------------------------------------------------------------------------
(* Resolver: find_main_file *)

\* search_candidates with the header without the suffix tried first
search_candidates_swapped(file_dir, base_name, suffix) ==
    <<join(file_dir, base_name \o <<".hpp">>),
      join(file_dir, base_name \o suffix \o <<".hpp">>)>>
    \o (IF basename(file_dir) = <<"impl">>
        THEN <<join(dirname(file_dir), base_name \o <<".hpp">>)>>
        ELSE <<>>)

\* the three sibling candidates of base_name in file_dir, in order
search_candidates(file_dir, base_name, suffix) ==
    <<join(file_dir, base_name \o suffix \o <<".hpp">>),
      join(file_dir, base_name \o <<".hpp">>)>>
    \o (IF basename(file_dir) = <<"impl">>
        THEN <<join(dirname(file_dir), base_name \o <<".hpp">>)>>
        ELSE <<>>)

\* the first candidate that is a file on disk
RECURSIVE find_first_existing(_)
find_first_existing(candidates) ==
    IF candidates = <<>> THEN None
    ELSE IF Head(candidates) # <<>> /\ Head(candidates) \in fs
         THEN Head(candidates)
         ELSE find_first_existing(Tail(candidates))

\* [x for x in candidates if not (x in seen or seen.add(x)) and x != file_path]
RECURSIVE FilterSeen(_, _, _)
FilterSeen(candidates, seen, self) ==
    IF candidates = <<>> THEN <<>>
    ELSE LET x == Head(candidates)
         IN  (IF x \notin seen /\ x # self THEN <<x>> ELSE <<>>)
             \o FilterSeen(Tail(candidates), seen \cup {x}, self)

\* the filter without "and x != file_path"
UniqueKeepSelf(candidates, self) == FilterSeen(candidates, {}, <<>>)

UniqueNotSelf(candidates, self) == FilterSeen(candidates, {}, self)

\* name[:-5]: the name without its last five characters, one suffix atom
StripSuffix(name) == SubSeq(name, 1, Len(name) - 1)

\* the candidates of a Mock-role input, before the filter
MockCandidates(file_dir, name) ==
    LET base_name == StripSuffix(name)
        src_dir == Replace(file_dir, MOCK_DIR \o <<Sep>> \o SRC_REFLECTION, SRC_DIR, -1)
    IN  search_candidates(file_dir, base_name, <<"_mock">>)
        \o search_candidates(src_dir, base_name, <<>>)

\* the candidates of a Test-role input, before the filter
TestCandidates(file_dir, name) ==
    LET base_name == StripSuffix(name)
        src_dir == Replace(file_dir, TEST_DIR \o <<Sep>> \o SRC_REFLECTION, SRC_DIR, -1)
    IN  search_candidates(file_dir, base_name, <<"_test">>)
        \o search_candidates(src_dir, <<"impl", Sep>> \o base_name, <<"_impl">>)
        \o search_candidates(src_dir, <<"impl", Sep>> \o base_name, <<>>)
        \o search_candidates(src_dir, base_name, <<"_impl">>)
        \o search_candidates(src_dir, base_name, <<>>)

\* the candidates of an Impl-role input, before the filter
ImplCandidates(file_dir, name) ==
    search_candidates(file_dir, StripSuffix(name), <<"_impl">>)

\* the candidates of a Plain-role input, before the filter
PlainCandidates(file_dir, name) ==
    search_candidates(file_dir, name, <<>>)

Eligible(ext) == ext = <<".cpp">> \/ ext = <<".hpp">>

\* the Role of an input with an eligible extension
Role(path) ==
    LET file_dir == dirname(path)
        name == splitext(basename(path))[1]
    IN  IF EndsWith(name, <<"_mock">>) /\ Contains(file_dir, MOCK_DIR) THEN "Mock"
        ELSE IF EndsWith(name, <<"_test">>) /\ Contains(file_dir, TEST_DIR) THEN "Test"
        ELSE IF EndsWith(name, <<"_impl">>) /\ Contains(file_dir, SRC_DIR) THEN "Impl"
        ELSE "Plain"

\* the concatenated candidate list of an eligible input, before the filter
Candidates(path) ==
    LET file_dir == dirname(path)
        name == splitext(basename(path))[1]
    IN  CASE Role(path) = "Mock" -> MockCandidates(file_dir, name)
          [] Role(path) = "Test" -> TestCandidates(file_dir, name)
          [] Role(path) = "Impl" -> ImplCandidates(file_dir, name)
          [] OTHER -> PlainCandidates(file_dir, name)

find_main_file(path) ==
    IF Eligible(splitext(basename(path))[2])
    THEN find_first_existing(UniqueNotSelf(Candidates(path), path))
    ELSE None

-----------------------------------------------------------------------------
(* The directories and names the model draws paths from *)

Impl(dir) == join(dir, <<"impl">>)
TestCore == join(TEST_DIR, SRC_REFLECTION)
MockCore == join(MOCK_DIR, SRC_REFLECTION)

\* the directories an input may lie in
InputDirs ==
    { SRC_DIR, Impl(SRC_DIR),
      TestCore, Impl(TestCore),
      MockCore, Impl(MockCore),
      TEST_DIR \o <<Sep, "mock", "ery">>,    \* /p/test/mockery
      MockCore \o MockCore }                \* /p/test/mock/core/p/test/mock/core

\* the directories a header on disk may lie in
HeaderDirs == InputDirs \cup { SRC_DIR \o MockCore }    \* /p/core/p/test/mock/core

Suffixes == { <<>>, <<"_test">>, <<"_mock">>, <<"_impl">> }

HeaderNames == { <<"w">> \o s \o <<".hpp">> : s \in Suffixes }

InputNames ==
    { <<"w", ".cpp">>, <<"w", ".hpp">>, <<"w", "_test", ".cpp">>,
      <<"w", "_mock", ".cpp">>, <<"w", "_mock", ".hpp">>,
      <<"w", "_impl", ".cpp">>, <<"w", ".txt">> }

Headers == { join(d, n) : d \in HeaderDirs, n \in HeaderNames }
Inputs == { join(d, n) : d \in InputDirs, n \in InputNames }

\* the subsets of S of at most n elements
RECURSIVE SubsetsUpTo(_, _)
SubsetsUpTo(S, n) ==
    IF n = 0 THEN {{}}
    ELSE LET smaller == SubsetsUpTo(S, n - 1)
         IN  smaller \cup { s \cup {x} : s \in smaller, x \in S }

\* the filesystems of the model: at most MaxFiles headers
Filesystems == SubsetsUpTo(Headers, MaxFiles)

-----------------------------------------------------------------------------
(* The resolver alone: any filesystem, any input *)

NoDocs == [q \in {} |-> <<>>]

InitResolve ==
    /\ fs \in Filesystems
    /\ doc = NoDocs
    /\ file_path = None
    /\ main_file = None
    /\ relative_main_file = None
    /\ argv = <<>>
    /\ idx = 0
    /\ pc = "call"
    /\ calls = <<>>
    /\ exit_code = -1

Resolve ==
    /\ pc = "call"
    /\ \E path \in Inputs :
        /\ file_path' = path
        /\ main_file' = find_main_file(path)
    /\ pc' = "returned"
    /\ UNCHANGED <<fs, doc, relative_main_file, argv, idx, calls, exit_code>>

NextResolve == Resolve

SpecResolve == InitResolve /\ [][NextResolve]_vars

-----------------------------------------------------------------------------
(* Templater: modify_clang_format *)

make_relative_to_base(base_path, target_path) == relpath(target_path, base_path)

\* relative_to_root with MOCK_DIR tested before TEST_DIR
relative_to_root_mock_first(main) ==
    IF Contains(main, MOCK_DIR) THEN make_relative_to_base(MOCK_DIR, main)
    ELSE IF Contains(main, TEST_DIR) THEN make_relative_to_base(TEST_DIR, main)
    ELSE make_relative_to_base(SRC_DIR, main)

\* the main file relative to the first root its text contains, the roots
\* tested in the code's order
relative_to_root(main) ==
    IF Contains(main, TEST_DIR) THEN make_relative_to_base(TEST_DIR, main)
    ELSE IF Contains(main, MOCK_DIR) THEN make_relative_to_base(MOCK_DIR, main)
    ELSE make_relative_to_base(SRC_DIR, main)

\* substitute with the commented-out fallback of the source (lines 134-135):
\* a line is appended when no line held the placeholder
substitute_appending(config_lines, relative) ==
    LET replaced == [k \in 1..Len(config_lines) |->
                        Replace(config_lines[k], PLACEHOLDER, relative, 1)]
    IN  IF replaced = config_lines THEN Append(replaced, relative) ELSE replaced

\* the loop over config_lines: line.replace("MAIN_INCLUDE_FILE", relative, 1)
substitute(config_lines, relative) ==
    [k \in 1..Len(config_lines) |-> Replace(config_lines[k], PLACEHOLDER, relative, 1)]

\* open(path, 'w') and writelines: the document at path becomes lines
WriteDoc(d, path, lines) ==
    [q \in DOMAIN d \cup {path} |-> IF q = path THEN lines ELSE d[q]]

modify_clang_format(base_clang_format, main, output_clang_format) ==
    /\ relative_main_file' = relative_to_root(main)
    /\ doc' = WriteDoc(doc, output_clang_format,
                       substitute(doc[base_clang_format], relative_to_root(main)))
    /\ fs' = fs \cup {output_clang_format}

\* find_clang_format's path, and main's temp_clang_format
BasePath == join(PROJECT_DIR, <<".clang-format">>)

\* the derived document written over the base document
TempPathInPlace(base_clang_format) == base_clang_format

TempPath(base_clang_format) == base_clang_format \o <<".tmp">>

\* the lines a base document is made of: plain text, and text with one or
\* two occurrences of the placeholder
Lines ==
    { <<"key">>,
      <<"key", "MAIN_INCLUDE_FILE">>,
      <<"MAIN_INCLUDE_FILE", "key", "MAIN_INCLUDE_FILE">>,
      <<"MAIN_INCLUDE_FILE", "MAIN_INCLUDE_FILE", "key">> }

\* the documents of at most n lines
RECURSIVE DocumentsUpTo(_)
DocumentsUpTo(n) ==
    IF n = 0 THEN {<<>>}
    ELSE LET shorter == DocumentsUpTo(n - 1)
         IN  shorter \cup { Append(d, l) : d \in shorter, l \in Lines }

-----------------------------------------------------------------------------
(* The templater alone: any base document, any main file *)

InitRender ==
    /\ fs = {BasePath}
    /\ \E d \in DocumentsUpTo(MaxLines) : doc = [q \in {BasePath} |-> d]
    /\ file_path = None
    /\ main_file = None
    /\ relative_main_file = None
    /\ argv = <<>>
    /\ idx = 0
    /\ pc = "call"
    /\ calls = <<>>
    /\ exit_code = -1

Render ==
    /\ pc = "call"
    /\ \E main \in Headers :
        /\ main_file' = main
        /\ modify_clang_format(BasePath, main, TempPath(BasePath))
    /\ pc' = "written"
    /\ UNCHANGED <<file_path, argv, idx, calls, exit_code>>

NextRender == Render

SpecRender == InitRender /\ [][NextRender]_vars

-----------------------------------------------------------------------------
(* main: the loop over the command-line arguments *)

\* the arguments of the model: inputs of every Role, one with an extension
\* that is not eligible, and the base document itself
Arguments ==
    { join(TestCore, <<"w", "_test", ".cpp">>),
      join(SRC_DIR, <<"w", ".hpp">>),
      join(MockCore, <<"w", "_mock", ".cpp">>),
      join(MockCore, <<"w", "_mock", ".hpp">>),
      join(SRC_DIR, <<"w", ".txt">>),
      BasePath }

\* the argument lists of at most n arguments
RECURSIVE ArgvUpTo(_)
ArgvUpTo(n) ==
    IF n = 0 THEN {<<>>}
    ELSE LET shorter == ArgvUpTo(n - 1)
         IN  shorter \cup { Append(a, x) : a \in shorter, x \in Arguments }

\* the base documents of main's runs
BaseDocuments ==
    { << <<"key">>, <<"key", "MAIN_INCLUDE_FILE">> >>,
      << <<"MAIN_INCLUDE_FILE", "key", "MAIN_INCLUDE_FILE">> >> }

\* what clang-format -i may leave in a file it formats: the lines re-laid out
Reformat(lines) == [k \in 1..Len(lines) |-> lines[k] \o <<"reformatted">>]

Init ==
    /\ fs \in SUBSET Arguments
    /\ IF BasePath \in fs
       THEN \E d \in BaseDocuments : doc = [q \in {BasePath} |-> d]
       ELSE doc = NoDocs
    /\ file_path = None
    /\ main_file = None
    /\ relative_main_file = None
    /\ argv \in ArgvUpTo(MaxArgs)
    /\ idx = 0
    /\ pc = "start"
    /\ calls = <<>>
    /\ exit_code = -1

\* sys.exit(code), and the interpreter's exit on an uncaught exception
Exit(code) ==
    /\ pc' = "done"
    /\ exit_code' = code

\* len(sys.argv) < 2: print the usage and exit
Usage ==
    /\ pc = "start"
    /\ argv = <<>>
    /\ Exit(1)
    /\ UNCHANGED <<fs, doc, file_path, main_file, relative_main_file, argv, idx, calls>>

\* the loop header: the next argument, or the end of the run
NextArgument ==
    /\ pc \in {"start", "loop"}
    /\ argv # <<>>
    /\ IF idx < Len(argv)
       THEN /\ file_path' = argv[idx + 1]
            /\ pc' = "isfile"
            /\ UNCHANGED exit_code
       ELSE /\ Exit(0)
            /\ UNCHANGED file_path
    /\ UNCHANGED <<fs, doc, main_file, relative_main_file, argv, idx, calls>>

\* the input is no file on disk
InputMissing ==
    /\ pc = "isfile"
    /\ file_path \notin fs
    /\ Exit(1)
    /\ UNCHANGED <<fs, doc, file_path, main_file, relative_main_file, argv, idx, calls>>

\* find_clang_format found no base document
BaseMissing ==
    /\ pc = "isfile"
    /\ file_path \in fs
    /\ BasePath \notin fs
    /\ Exit(1)
    /\ UNCHANGED <<fs, doc, file_path, main_file, relative_main_file, argv, idx, calls>>

\* main_file = find_main_file(file_path)
FindMain ==
    /\ pc = "isfile"
    /\ file_path \in fs
    /\ BasePath \in fs
    /\ main_file' = find_main_file(file_path)
    /\ pc' = "found"
    /\ UNCHANGED <<fs, doc, file_path, relative_main_file, argv, idx, calls, exit_code>>

\* Template that keeps a derived document already on disk
TemplateIfAbsent ==
    /\ pc = "found"
    /\ main_file # None
    /\ IF TempPath(BasePath) \in fs
       THEN UNCHANGED <<fs, doc, relative_main_file>>
       ELSE modify_clang_format(BasePath, main_file, TempPath(BasePath))
    /\ pc' = "templated"
    /\ UNCHANGED <<file_path, main_file, argv, idx, calls, exit_code>>

\* a main file was found: write the derived document
Template ==
    /\ pc = "found"
    /\ main_file # None
    /\ modify_clang_format(BasePath, main_file, TempPath(BasePath))
    /\ pc' = "templated"
    /\ UNCHANGED <<file_path, main_file, argv, idx, calls, exit_code>>

\* subprocess.run without check=True: a failed formatter is not noticed
FormatterFailedIgnored ==
    /\ pc' = "loop"
    /\ idx' = idx + 1
    /\ UNCHANGED exit_code

\* the formatter exited with a non-zero status: subprocess.run(check=True)
\* raises, nothing catches it
FormatterFailed == Exit(1) /\ UNCHANGED idx

\* the formatter exited with status 0: on to the next argument
FormatterDone ==
    /\ pc' = "loop"
    /\ idx' = idx + 1
    /\ UNCHANGED exit_code

\* format_file(file_path, clang_format_path): the formatter runs with the
\* document at clang_format_path as its style and formats file_path in place
format_file(path, clang_format_path) ==
    \E outcome \in {"failed", "unchanged", "rewritten"} :
        /\ calls' = Append(calls, [file |-> path,
                                   style |-> clang_format_path,
                                   lines |-> doc[clang_format_path],
                                   ok |-> outcome # "failed"])
        /\ doc' = IF outcome = "rewritten" /\ path \in DOMAIN doc
                  THEN [doc EXCEPT ![path] = Reformat(doc[path])]
                  ELSE doc
        /\ IF outcome = "failed" THEN FormatterFailed ELSE FormatterDone

\* the formatter runs with the derived document
FormatDerived ==
    /\ pc = "templated"
    /\ format_file(file_path, TempPath(BasePath))
    /\ UNCHANGED <<fs, file_path, main_file, relative_main_file, argv>>

\* no main file: the formatter runs with the base document
FormatBase ==
    /\ pc = "found"
    /\ main_file = None
    /\ format_file(file_path, BasePath)
    /\ UNCHANGED <<fs, file_path, main_file, relative_main_file, argv>>

Next ==
    \/ Usage
    \/ NextArgument
    \/ InputMissing
    \/ BaseMissing
    \/ FindMain
    \/ Template
    \/ FormatDerived
    \/ FormatBase

Spec == Init /\ [][Next]_vars

-----------------------------------------------------------------------------
(* What the claims say of the resolver, stated without the resolver's code *)

\* the input's directory, name without extension, and extension
InDir == dirname(file_path)
InName == splitext(basename(file_path))[1]
InExt == splitext(basename(file_path))[2]
InBase == SubSeq(InName, 1, Len(InName) - 1)

\* the number of non-overlapping occurrences of old in s: s.count(old)
RECURSIVE Count(_, _)
Count(s, old) ==
    IF Len(s) < Len(old) THEN 0
    ELSE IF SubSeq(s, 1, Len(old)) = old
         THEN 1 + Count(SubSeq(s, Len(old) + 1, Len(s)), old)
         ELSE Count(Tail(s), old)

\* s with its prefix old rewritten to new; s itself when old is no prefix of it
PrefixRewrite(s, old, new) ==
    IF Len(s) >= Len(old) /\ SubSeq(s, 1, Len(old)) = old
    THEN new \o SubSeq(s, Len(old) + 1, Len(s))
    ELSE s

\* the first path of a list that is a file on disk, None when there is none
FirstOnDisk(paths) ==
    LET at == {k \in 1..Len(paths) : paths[k] \in fs}
    IN  IF at = {} THEN None ELSE paths[CHOOSE k \in at : \A j \in at : k <= j]

\* the in-place siblings of a suffixed input: the same-named header, the
\* header without the suffix, and that header one level up from an impl directory
InPlace ==
    { join(InDir, InName \o <<".hpp">>), join(InDir, InBase \o <<".hpp">>) }
    \cup (IF basename(InDir) = <<"impl">>
          THEN { join(dirname(InDir), InBase \o <<".hpp">>) } ELSE {})

NoInPlaceSibling == \A q \in InPlace : q = file_path \/ q \notin fs

IsTestInput ==
    /\ pc = "returned"
    /\ Eligible(InExt)
    /\ EndsWith(InName, <<"_test">>)
    /\ Contains(InDir, TEST_DIR)
    /\ ~(EndsWith(InName, <<"_mock">>) /\ Contains(InDir, MOCK_DIR))

IsMockInput ==
    /\ pc = "returned"
    /\ Eligible(InExt)
    /\ EndsWith(InName, <<"_mock">>)
    /\ Contains(InDir, MOCK_DIR)

\* the four source-root candidates of a Test-role input, in the stated order
FourWay(srcDir) ==
    << join(join(srcDir, <<"impl">>), InBase \o <<"_impl", ".hpp">>),
       join(join(srcDir, <<"impl">>), InBase \o <<".hpp">>),
       join(srcDir, InBase \o <<"_impl", ".hpp">>),
       join(srcDir, InBase \o <<".hpp">>) >>

TestSrcDir == PrefixRewrite(InDir, TestCore, SRC_DIR)
MockSrcDir == PrefixRewrite(InDir, MockCore, SRC_DIR)

\* C1: a Test-role input with no in-place sibling resolves to the first of
\* srcDir/impl/base_impl.hpp, srcDir/impl/base.hpp, srcDir/base_impl.hpp,
\* srcDir/base.hpp that is on disk, for every srcDir
C1_FourWayOrder ==
    (IsTestInput /\ NoInPlaceSibling /\ FirstOnDisk(FourWay(TestSrcDir)) # None)
        => main_file = FirstOnDisk(FourWay(TestSrcDir))

\* C1 for the source directories that are not named impl
C1_FourWayOrderOutsideImpl ==
    (IsTestInput /\ NoInPlaceSibling /\ FirstOnDisk(FourWay(TestSrcDir)) # None
        /\ basename(TestSrcDir) # <<"impl">>)
        => main_file = FirstOnDisk(FourWay(TestSrcDir))

\* C3: an eligible input whose same-named header exists and is not the
\* input resolves to that header, whatever else exists
SameNamedHeader == join(InDir, InName \o <<".hpp">>)

C3_SameNamedHeaderWins ==
    (pc = "returned" /\ Eligible(InExt) /\ SameNamedHeader \in fs
        /\ SameNamedHeader # file_path)
        => main_file = SameNamedHeader

\* a Mock-role input whose same-named header and suffix-less header both
\* exist resolves to the same-named header
C3_Witness ==
    /\ IsMockInput
    /\ SameNamedHeader \in fs
    /\ SameNamedHeader # file_path
    /\ join(InDir, InBase \o <<".hpp">>) \in fs
    /\ main_file = SameNamedHeader

\* C4: a Mock-role input with no in-place sibling and an existing
\* remappedDir/base.hpp resolves to remappedDir/base.hpp, remappedDir being
\* the input's directory with the MOCK_DIR/core prefix rewritten to SRC_DIR
C4_MockRemapped ==
    (IsMockInput /\ NoInPlaceSibling
        /\ join(MockSrcDir, InBase \o <<".hpp">>) \in fs)
        => main_file = join(MockSrcDir, InBase \o <<".hpp">>)

\* C4 for the directories that hold the text MOCK_DIR/core at most once
C4_MockRemappedSingle ==
    (IsMockInput /\ NoInPlaceSibling
        /\ Count(InDir, MockCore) <= 1
        /\ join(MockSrcDir, InBase \o <<".hpp">>) \in fs)
        => main_file = join(MockSrcDir, InBase \o <<".hpp">>)

\* C5: the result is never the input; a returned result is on disk and is
\* the earliest entry of the concatenated candidate list that is on disk and
\* is not the input
C5_NeverSelfFirstExisting ==
    (pc = "returned" /\ main_file # None)
        => LET raw == Candidates(file_path)
               at == {k \in 1..Len(raw) : raw[k] \in fs /\ raw[k] # file_path}
           IN  /\ main_file # file_path
               /\ main_file \in fs
               /\ at # {}
               /\ main_file = raw[CHOOSE k \in at : \A j \in at : k <= j]

\* the input is on disk and is generated as a candidate ahead of the result
C5_Witness ==
    /\ pc = "returned"
    /\ main_file # None
    /\ file_path \in fs
    /\ Candidates(file_path)[1] = file_path
    /\ Candidates(file_path)[2] # main_file

-----------------------------------------------------------------------------
(* What the claims say of the templater *)

Base == doc[BasePath]
Derived == doc[TempPath(BasePath)]

StartsWith(s, prefix) ==
    Len(s) >= Len(prefix) /\ SubSeq(s, 1, Len(prefix)) = prefix

\* C2: no line of the written document holds the placeholder any more,
\* however many occurrences the base line held
C2_EveryOccurrenceReplaced ==
    pc = "written"
        => \A k \in 1..Len(Derived) : Count(Derived[k], PLACEHOLDER) = 0

\* C2 for the lines that hold the placeholder at most once
C2_SingleOccurrenceReplaced ==
    pc = "written"
        => \A k \in 1..Len(Derived) :
               Count(Base[k], PLACEHOLDER) <= 1 => Count(Derived[k], PLACEHOLDER) = 0

\* C6: the written document has as many lines as the base document, in the
\* same order (each line is the base line with the substituted string put
\* back), and a line without the placeholder is written back unchanged
C6_LinesKept ==
    pc = "written"
        => /\ Len(Derived) = Len(Base)
           /\ \A k \in 1..Len(Base) :
                /\ Count(Base[k], PLACEHOLDER) = 0 => Derived[k] = Base[k]
                /\ Replace(Derived[k], relative_main_file, PLACEHOLDER, 1) = Base[k]

\* a two-line base document, the placeholder on its second line only: the
\* first line is written back as it was, the second substituted
C6_Witness ==
    /\ pc = "written"
    /\ Len(Base) >= 2
    /\ Count(Base[1], PLACEHOLDER) = 0
    /\ Count(Base[2], PLACEHOLDER) > 0
    /\ Derived[1] = Base[1]
    /\ Derived[2] # Base[2]

\* C10 as stated: for a main file whose path contains MOCK_DIR the
\* substituted string is the path relative to TEST_DIR, not the one relative
\* to MOCK_DIR, and it starts with mock/
C10_RelativeToTestStartsWithMock ==
    (pc = "written" /\ Contains(main_file, MOCK_DIR))
        => /\ relative_main_file = relpath(main_file, TEST_DIR)
           /\ relative_main_file # relpath(main_file, MOCK_DIR)
           /\ StartsWith(relative_main_file, <<"mock", Sep>>)

\* C10 amended: for a main file whose path contains MOCK_DIR the substituted
\* string is the path relative to TEST_DIR, not the one relative to MOCK_DIR;
\* it is mock/ followed by the rest of the path when the path starts with
\* MOCK_DIR and a separator
C10_RelativeToTest ==
    (pc = "written" /\ Contains(main_file, MOCK_DIR))
        => /\ relative_main_file = relpath(main_file, TEST_DIR)
           /\ relative_main_file # relpath(main_file, MOCK_DIR)
           /\ StartsWith(main_file, MOCK_DIR \o <<Sep>>)
                => relative_main_file =
                       <<"mock", Sep>>
                       \o SubSeq(main_file, Len(MOCK_DIR) + 2, Len(main_file))

\* a main file in the MOCK_DIR tree was substituted as mock/...
C10_Witness ==
    /\ pc = "written"
    /\ StartsWith(main_file, MOCK_DIR \o <<Sep>>)
    /\ StartsWith(relative_main_file, <<"mock", Sep>>)
    /\ \E k \in 1..Len(Base) : Contains(Derived[k], relative_main_file)

-----------------------------------------------------------------------------
(* What the claims say of main *)

LastCall == calls[Len(calls)]
FormatterFailedLast == calls # <<>> /\ ~LastCall.ok

\* C7, between steps: the inputs handled so far were each given to the
\* formatter once, in order
C7_OncePerInput ==
    /\ Len(calls) = idx + (IF FormatterFailedLast THEN 1 ELSE 0)
    /\ \A k \in 1..Len(calls) : calls[k].file = argv[k]
    /\ (pc = "done" /\ exit_code = 0) => Len(calls) = Len(argv)

\* C7, at an invocation: it is for the current input, after resolution, with
\* the base document when the input has no main file and otherwise with the
\* document derived from the base for this input's main file
C7_Invocation ==
    calls' # calls
        => /\ calls' = Append(calls, calls'[Len(calls')])
           /\ calls'[Len(calls')].file = file_path
           /\ file_path = argv[idx + 1]
           /\ main_file = find_main_file(file_path)
           /\ IF find_main_file(file_path) = None
              THEN /\ calls'[Len(calls')].style = BasePath
                   /\ calls'[Len(calls')].lines = Base
              ELSE /\ calls'[Len(calls')].style = TempPath(BasePath)
                   /\ calls'[Len(calls')].lines =
                          substitute(Base, relative_to_root(find_main_file(file_path)))

\* C7: the formatter is invoked exactly once for each input handled, after
\* resolution, with the base document when find_main_file returned None and
\* otherwise with the derived document written for that input's main file
C7_FormatterConfig == [](C7_OncePerInput) /\ [][C7_Invocation]_vars

\* two inputs in a row were formatted with two different derived documents
C7_Witness ==
    /\ Len(calls) = 2
    /\ calls[1].style = TempPath(BasePath)
    /\ calls[2].style = TempPath(BasePath)
    /\ calls[1].lines # calls[2].lines

\* C8: invocations follow the command-line order; none is made for an input
\* that is missing or while the base document is missing; a failed invocation
\* is the last one and ends the run with a non-zero exit; a run that stops
\* short of the last input ends with a non-zero exit at the first input that
\* failed, every input before it formatted
C8_FailFastInOrder ==
    /\ \A k \in 1..Len(calls) :
        /\ calls[k].file = argv[k]
        /\ argv[k] \in fs
        /\ BasePath \in fs
        /\ ~calls[k].ok => (k = Len(calls) /\ pc = "done" /\ exit_code = 1)
    /\ (pc = "done" /\ exit_code = 0)
        => (Len(calls) = Len(argv) /\ \A k \in 1..Len(calls) : calls[k].ok)
    /\ (pc = "done" /\ argv # <<>> /\ ~FormatterFailedLast /\ Len(calls) < Len(argv))
        => /\ exit_code = 1
           /\ (argv[Len(calls) + 1] \notin fs \/ BasePath \notin fs)
    /\ pc = "done" => exit_code \in {0, 1}

\* the first input was formatted, the second is missing: the run ended with
\* exit status 1 after one invocation
C8_Witness ==
    /\ pc = "done"
    /\ exit_code = 1
    /\ Len(argv) = 2
    /\ Len(calls) = 1
    /\ calls[1].ok
    /\ argv[2] \notin fs

\* a step leaves the base document on disk with its content
BaseKept ==
    BasePath \in DOMAIN doc
        => /\ BasePath \in DOMAIN doc'
           /\ doc'[BasePath] = doc[BasePath]
           /\ BasePath \in fs'

\* C9 as stated: no step of any run deletes or rewrites the base document
C9_BaseUntouched == [][BaseKept]_vars

\* C9 amended: no step deletes the base document, and the only step that
\* rewrites it is the formatter formatting in place an input that is the base
\* document itself; the templater writes to the base path + ".tmp"
C9_BaseUntouchedUnlessInput ==
    [][BaseKept \/ (file_path = BasePath /\ calls' # calls /\ BasePath \in fs')]_vars

\* the templater wrote a derived document that differs from the base, in a
\* run none of whose inputs is the base document
C9_Witness ==
    /\ pc = "templated"
    /\ \A k \in 1..Len(argv) : argv[k] # BasePath
    /\ TempPath(BasePath) \in DOMAIN doc
    /\ Derived # Base

=============================================================================
